---- MODULE Spec2Model ----
(***************************************************************************)
(* The Lottery contract of src/lottery.py (SmartPy, Tezos).                *)
(*                                                                         *)
(* The storage fields are the variables players, ticket_cost,              *)
(* tickets_available, max_tickets and admin; balance is the contract's     *)
(* balance in mutez.  Every entry point call is one atomic step: the       *)
(* amount attached to the call is credited first, the entry point runs,    *)
(* and a failing sp.verify (or a failing instruction) aborts the call, so  *)
(* the storage and the balance stay as they were and no operation is       *)
(* emitted.  last records the call that produced the current state: entry  *)
(* point, call context, argument, result and the transfers emitted.        *)
(***************************************************************************)
EXTENDS Integers, FiniteSets, Sequences, TLC

VARIABLES players, ticket_cost, tickets_available, max_tickets, admin,
          balance, last

storage == <<players, ticket_cost, tickets_available, max_tickets, admin>>
vars == <<players, ticket_cost, tickets_available, max_tickets, admin,
          balance, last>>

(* ------------------------------ bounds ------------------------------- *)
\* largest num_tickets passed to buy_ticket
MaxRequest == 3
\* largest new_max_tickets passed to change_max_tickets
MaxNewMax == 3
\* largest new_ticket_cost passed to change_ticket_cost, in tez
MaxNewCost == 2
\* largest amount attached to a call, in tez
MaxAmount == 3
\* largest timestamp (seconds since sp.timestamp(0)) of an end_game call
MaxNow == 5
\* cap, in tez, on the balance after a call that keeps its attached amount
MaxKept == 1

(* ---------------------------- call context --------------------------- *)
\* the admin address of the initial storage and one of the test accounts
AdminAddress == "tz1i1THJ4MHiqTWsHNcZNU4YT8tPtqZW5NYE"
alice == "alice"
Addresses == {AdminAddress, alice}

\* sp.tez(n) is n * 10^6 mutez; sp.mutez(n) is n
tez(n) == n * 1000000
mutez(n) == n

\* amounts a caller may attach (sp.amount), new costs and timestamps
Amounts == {tez(k) : k \in 0..MaxAmount}
SmallAmounts == {tez(0), tez(1)}
NewCosts == {tez(k) : k \in 0..MaxNewCost}
Requests == 0..MaxRequest
NewMaxes == 0..MaxNewMax
Timestamps == 0..MaxNow

(* ------------------------------ results ------------------------------ *)
OK == "OK"
NoTicketsAvailable == "NO TICKETS AVAILABLE"
InsufficientPayment == "INVALID AMOUNT"
NotAuthorized == "NOT AUTHORIZED"
RoundAlreadyStarted == "GAME ALREADY STARTED"
RoundNotFinished == "GAME IS YET TO END"
\* failures of instructions rather than of an sp.verify
NegativeAsNat == "AS_NAT OF A NEGATIVE"
DivisionByZero == "DIVISION BY ZERO"
MissingKey == "MISSING KEY"
VerifyErrors == {NoTicketsAvailable, InsufficientPayment, NotAuthorized,
                 RoundAlreadyStarted, RoundNotFinished}

(* --------------------------- SmartPy helpers ------------------------- *)
\* sp.len of a map
len(m) == Cardinality(DOMAIN m)
\* m[k] = v on a map: adds the key or overwrites its value
put(m, k, v) == [x \in (DOMAIN m) \cup {k} |-> IF x = k THEN v ELSE m[x]]
\* the empty map
EmptyMap == [x \in {} |-> AdminAddress]
\* sp.send(to, amount)
transfer(to, amount) == [to |-> to, amount |-> amount]

(* ------------------------------ buy_ticket --------------------------- *)
\* can_buy without the clamp of lines 24-25
can_buy_unclamped(num_tickets, available) == num_tickets

\* lines 23-25: the number of tickets the player gets
can_buy(num_tickets, available) ==
    IF num_tickets > available THEN available ELSE num_tickets

\* total_cost charging one ticket whatever the count
total_cost_one_ticket(num_tickets, available, cost) == cost

\* line 28
total_cost(num_tickets, available, cost) ==
    can_buy(num_tickets, available) * cost

\* buy_ticket_result with the payment checked against the requested count
buy_ticket_result_requested(num_tickets, available, cost, amount) ==
    IF ~(available > 0) THEN NoTicketsAvailable
    ELSE IF ~(amount >= num_tickets * cost) THEN InsufficientPayment
    ELSE IF available - can_buy(num_tickets, available) < 0
         THEN NegativeAsNat
    ELSE OK

\* buy_ticket_result with a request for no ticket rejected
buy_ticket_result_reject_zero(num_tickets, available, cost, amount) ==
    IF ~(available > 0 /\ num_tickets > 0) THEN NoTicketsAvailable
    ELSE IF ~(amount >= total_cost(num_tickets, available, cost))
         THEN InsufficientPayment
    ELSE IF available - can_buy(num_tickets, available) < 0
         THEN NegativeAsNat
    ELSE OK

\* lines 18, 30 and 40: the two sp.verify of buy_ticket, in order, then
\* sp.as_nat, which fails on a negative difference
buy_ticket_result(num_tickets, available, cost, amount) ==
    IF ~(available > 0) THEN NoTicketsAvailable
    ELSE IF ~(amount >= total_cost(num_tickets, available, cost))
         THEN InsufficientPayment
    ELSE IF available - can_buy(num_tickets, available) < 0
         THEN NegativeAsNat
    ELSE OK

\* add_tickets writing at key idx instead of sp.len(players)
RECURSIVE add_tickets_at_idx(_, _, _, _)
add_tickets_at_idx(m, idx, n, sender) ==
    IF idx < n
    THEN add_tickets_at_idx(put(m, idx, sender), idx + 1, n, sender)
    ELSE m

\* add_tickets numbering the tickets from 1
RECURSIVE add_tickets_from_one(_, _, _, _)
add_tickets_from_one(m, idx, n, sender) ==
    IF idx < n
    THEN add_tickets_from_one(put(m, len(m) + 1, sender), idx + 1, n, sender)
    ELSE m

\* lines 35-38: the while loop, one entry per ticket at key sp.len(players)
RECURSIVE add_tickets(_, _, _, _)
add_tickets(m, idx, n, sender) ==
    IF idx < n
    THEN add_tickets(put(m, len(m), sender), idx + 1, n, sender)
    ELSE m

\* extra_balance computed from the requested count
extra_balance_requested(num_tickets, available, cost, amount) ==
    amount - num_tickets * cost

\* lines 43-45: the refund, sent only when positive
extra_balance(num_tickets, available, cost, amount) ==
    amount - total_cost(num_tickets, available, cost)

refund(sender, extra) ==
    IF extra > mutez(0) THEN <<transfer(sender, extra)>> ELSE <<>>

RECURSIVE sum_sent(_)
sum_sent(ops) ==
    IF ops = <<>> THEN 0 ELSE Head(ops).amount + sum_sent(Tail(ops))

Call(op, sender, amount, arg, now, result, sent) ==
    [op |-> op, sender |-> sender, amount |-> amount, arg |-> arg,
     now |-> now, result |-> result, sent |-> sent]

\* buy_ticket with the payment check of line 30 made after the storage
\* updates and without aborting the call
buy_ticket_partial ==
    \E sender \in Addresses, amount \in Amounts, num_tickets \in Requests :
        LET result == buy_ticket_result(num_tickets, tickets_available,
                                        ticket_cost, amount)
            granted == can_buy(num_tickets, tickets_available)
            sent == refund(sender, extra_balance(num_tickets,
                               tickets_available, ticket_cost, amount))
        IN  IF result \in {OK, InsufficientPayment}
            THEN /\ players' = add_tickets(players, 0, granted, sender)
                 /\ tickets_available' = tickets_available - granted
                 /\ balance' = balance + amount - sum_sent(sent)
                 /\ last' = Call("buy_ticket", sender, amount, num_tickets,
                                 0, result, sent)
                 /\ UNCHANGED <<ticket_cost, max_tickets, admin>>
            ELSE /\ last' = Call("buy_ticket", sender, amount, num_tickets,
                                 0, result, <<>>)
                 /\ UNCHANGED <<storage, balance>>

buy_ticket ==
    \E sender \in Addresses, amount \in Amounts, num_tickets \in Requests :
        LET result == buy_ticket_result(num_tickets, tickets_available,
                                        ticket_cost, amount)
            granted == can_buy(num_tickets, tickets_available)
            sent == refund(sender, extra_balance(num_tickets,
                               tickets_available, ticket_cost, amount))
        IN  IF result = OK
            THEN /\ players' = add_tickets(players, 0, granted, sender)
                 /\ tickets_available' = tickets_available - granted
                 /\ balance' = balance + amount - sum_sent(sent)
                 /\ last' = Call("buy_ticket", sender, amount, num_tickets,
                                 0, OK, sent)
                 /\ UNCHANGED <<ticket_cost, max_tickets, admin>>
            ELSE /\ last' = Call("buy_ticket", sender, amount, num_tickets,
                                 0, result, <<>>)
                 /\ UNCHANGED <<storage, balance>>

(* -------------------------- change_ticket_cost ----------------------- *)
\* admin_result with the two checks in the other order
admin_result_round_first(sender, adm, available, max) ==
    IF ~(available = max) THEN RoundAlreadyStarted
    ELSE IF ~(sender = adm) THEN NotAuthorized
    ELSE OK

\* admin_result without the check of line 53
admin_result_no_round_check(sender, adm, available, max) ==
    IF ~(sender = adm) THEN NotAuthorized ELSE OK

\* admin_result refusing only a sold-out round
admin_result_until_sold_out(sender, adm, available, max) ==
    IF ~(sender = adm) THEN NotAuthorized
    ELSE IF ~(available > 0) THEN RoundAlreadyStarted
    ELSE OK

\* lines 52-53 (and 62-63): the two sp.verify of the admin entry points
admin_result(sender, adm, available, max) ==
    IF ~(sender = adm) THEN NotAuthorized
    ELSE IF ~(available = max) THEN RoundAlreadyStarted
    ELSE OK

\* a call that keeps its attached amount stays under the cap of the model
Kept(amount) == balance + amount <= tez(MaxKept)

change_ticket_cost ==
    \E sender \in Addresses, amount \in SmallAmounts,
       new_ticket_cost \in NewCosts :
        LET result == admin_result(sender, admin, tickets_available,
                                   max_tickets)
        IN  IF result = OK
            THEN /\ Kept(amount)
                 /\ ticket_cost' = new_ticket_cost
                 /\ balance' = balance + amount
                 /\ last' = Call("change_ticket_cost", sender, amount,
                                 new_ticket_cost, 0, OK, <<>>)
                 /\ UNCHANGED <<players, tickets_available, max_tickets,
                                admin>>
            ELSE /\ last' = Call("change_ticket_cost", sender, amount,
                                 new_ticket_cost, 0, result, <<>>)
                 /\ UNCHANGED <<storage, balance>>

(* -------------------------- change_max_tickets ----------------------- *)
\* change_max_tickets without the assignment of line 66
change_max_tickets_no_reset ==
    \E sender \in Addresses, amount \in SmallAmounts,
       new_max_tickets \in NewMaxes :
        LET result == admin_result(sender, admin, tickets_available,
                                   max_tickets)
        IN  IF result = OK
            THEN /\ Kept(amount)
                 /\ max_tickets' = new_max_tickets
                 /\ balance' = balance + amount
                 /\ last' = Call("change_max_tickets", sender, amount,
                                 new_max_tickets, 0, OK, <<>>)
                 /\ UNCHANGED <<players, ticket_cost, tickets_available,
                                admin>>
            ELSE /\ last' = Call("change_max_tickets", sender, amount,
                                 new_max_tickets, 0, result, <<>>)
                 /\ UNCHANGED <<storage, balance>>

change_max_tickets ==
    \E sender \in Addresses, amount \in SmallAmounts,
       new_max_tickets \in NewMaxes :
        LET result == admin_result(sender, admin, tickets_available,
                                   max_tickets)
        IN  IF result = OK
            THEN /\ Kept(amount)
                 /\ max_tickets' = new_max_tickets
                 /\ tickets_available' = max_tickets'
                 /\ balance' = balance + amount
                 /\ last' = Call("change_max_tickets", sender, amount,
                                 new_max_tickets, 0, OK, <<>>)
                 /\ UNCHANGED <<players, ticket_cost, admin>>
            ELSE /\ last' = Call("change_max_tickets", sender, amount,
                                 new_max_tickets, 0, result, <<>>)
                 /\ UNCHANGED <<storage, balance>>

(* ------------------------------- end_game ---------------------------- *)
\* winner_id shifted by one second
winner_id_next(now, max) == (now + 1) % max

\* winner_id that always picks the first ticket
winner_id_first(now, max) == 0

\* winner_id for tickets numbered from 1
winner_id_from_one(now, max) == ((now - 0) % max) + 1

\* line 79: sp.as_nat(sp.now - sp.timestamp(0)) % max_tickets, for max > 0
winner_id(now, max) == (now - 0) % max

\* end_game_result with end_game restricted to the admin
end_game_result_admin_only(sender, now, available, max, m) ==
    IF ~(sender = admin) THEN NotAuthorized
    ELSE IF ~(available = 0) THEN RoundNotFinished
    ELSE IF now - 0 < 0 THEN NegativeAsNat
    ELSE IF max = 0 THEN DivisionByZero
    ELSE IF winner_id(now, max) \notin DOMAIN m THEN MissingKey
    ELSE OK

\* lines 76-80: the sp.verify, then sp.as_nat, the modulo (EDIV fails on a
\* zero divisor) and the map lookup (fails on a missing key)
end_game_result(sender, now, available, max, m) ==
    IF ~(available = 0) THEN RoundNotFinished
    ELSE IF now - 0 < 0 THEN NegativeAsNat
    ELSE IF max = 0 THEN DivisionByZero
    ELSE IF winner_id(now, max) \notin DOMAIN m THEN MissingKey
    ELSE OK

\* end_game without the reset of players of line 86
end_game_keep_players ==
    \E sender \in Addresses, amount \in SmallAmounts, now \in Timestamps :
        LET result == end_game_result(sender, now, tickets_available,
                                      max_tickets, players)
        IN  IF result = OK
            THEN LET winner_address == players[winner_id(now, max_tickets)]
                     sent == <<transfer(winner_address, balance + amount)>>
                 IN  /\ tickets_available' = max_tickets
                     /\ balance' = balance + amount - sum_sent(sent)
                     /\ last' = Call("end_game", sender, amount, 0, now, OK,
                                     sent)
                     /\ UNCHANGED <<players, ticket_cost, max_tickets, admin>>
            ELSE /\ last' = Call("end_game", sender, amount, 0, now, result,
                                 <<>>)
                 /\ UNCHANGED <<storage, balance>>

end_game ==
    \E sender \in Addresses, amount \in SmallAmounts, now \in Timestamps :
        LET result == end_game_result(sender, now, tickets_available,
                                      max_tickets, players)
        IN  IF result = OK
            THEN LET winner_address == players[winner_id(now, max_tickets)]
                     \* sp.balance includes the amount of this call
                     sent == <<transfer(winner_address, balance + amount)>>
                 IN  /\ players' = EmptyMap
                     /\ tickets_available' = max_tickets
                     /\ balance' = balance + amount - sum_sent(sent)
                     /\ last' = Call("end_game", sender, amount, 0, now, OK,
                                     sent)
                     /\ UNCHANGED <<ticket_cost, max_tickets, admin>>
            ELSE /\ last' = Call("end_game", sender, amount, 0, now, result,
                                 <<>>)
                 /\ UNCHANGED <<storage, balance>>

Init ==
    /\ players = EmptyMap
    /\ ticket_cost = tez(1)
    /\ tickets_available = 5
    /\ max_tickets = 5
    /\ admin = AdminAddress
    /\ balance = 0
    /\ last = Call("none", AdminAddress, 0, 0, 0, OK, <<>>)

Next ==
    \/ buy_ticket
    \/ change_ticket_cost
    \/ change_max_tickets
    \/ end_game

Spec == Init /\ [][Next]_vars

(* ------------------------------ properties --------------------------- *)
Min(a, b) == IF a < b THEN a ELSE b
AdminOps == {"change_ticket_cost", "change_max_tickets"}

\* C1: in every reachable state tickets_available <= max_tickets and the
\* number of entries of players is max_tickets - tickets_available.
C1_SoldTicketsInvariant ==
    /\ tickets_available <= max_tickets
    /\ len(players) = max_tickets - tickets_available

\* a rejected purchase in a partly sold round of a changed capacity
C1_Witness ==
    /\ last.op = "buy_ticket"
    /\ last.result = InsufficientPayment
    /\ max_tickets # 5
    /\ len(players) > 0
    /\ tickets_available > 0

\* C2: whenever tickets_available = 0, end_game succeeds for every caller
\* and every timestamp (the modulo and the lookup cannot fail).
C2_EndGameSucceedsWhenSoldOut ==
    tickets_available = 0 =>
        \A sender \in Addresses, now \in Timestamps :
            end_game_result(sender, now, tickets_available, max_tickets,
                            players) = OK

\* C3: a call rejected by an sp.verify leaves the storage and the balance
\* as they were and emits no transfer.
C3_RejectedCallChangesNothing ==
    [][last'.result \in VerifyErrors =>
          /\ UNCHANGED <<players, ticket_cost, tickets_available,
                         max_tickets, admin, balance>>
          /\ last'.sent = <<>>]_vars

\* a purchase rejected for its payment, with an amount attached, in a round
\* that already holds tickets and currency
C3_Witness ==
    /\ last.op = "buy_ticket"
    /\ last.result = InsufficientPayment
    /\ last.amount > 0
    /\ len(players) > 0
    /\ balance > 0

\* C4 as stated: a buy_ticket that requests more than tickets_available
\* buys exactly tickets_available tickets, leaves 0 and never errors.
C4_OverRequestNeverErrors ==
    [][(last'.op = "buy_ticket" /\ last'.arg > tickets_available) =>
          /\ last'.result = OK
          /\ tickets_available' = 0
          /\ len(players') = len(players) + tickets_available]_vars

\* C4 amended: a buy_ticket that requests more than tickets_available,
\* with tickets_available > 0 and an attached amount of at least
\* tickets_available * ticket_cost, succeeds, gives the caller exactly
\* tickets_available new tickets and leaves tickets_available = 0.
C4_Clamping ==
    [][(/\ last'.op = "buy_ticket"
        /\ last'.arg > tickets_available
        /\ tickets_available > 0
        /\ last'.amount >= tickets_available * ticket_cost) =>
          /\ last'.result = OK
          /\ tickets_available' = 0
          /\ len(players') = len(players) + tickets_available
          /\ \A k \in DOMAIN players' :
                IF k \in DOMAIN players THEN players'[k] = players[k]
                ELSE players'[k] = last'.sender]_vars

\* a successful purchase of the last tickets of a round of 2 by a request
\* for 3
C4_Witness ==
    /\ last.op = "buy_ticket"
    /\ last.result = OK
    /\ last.arg = 3
    /\ max_tickets = 2
    /\ tickets_available = 0

\* C5 as stated: a successful buy_ticket(n) with amount a >= n * ticket_cost
\* sends back exactly a - n * ticket_cost, and nothing when that is 0.
C5_RefundOfRequested ==
    [][(/\ last'.op = "buy_ticket"
        /\ last'.result = OK
        /\ last'.amount >= last'.arg * ticket_cost) =>
          last'.sent =
              IF last'.amount - last'.arg * ticket_cost = 0 THEN <<>>
              ELSE <<transfer(last'.sender,
                              last'.amount - last'.arg * ticket_cost)>>]_vars

\* C5 amended: a successful buy_ticket(n) with amount a sends back to the
\* caller exactly a - min(n, tickets_available) * ticket_cost, in one
\* transfer, and makes no transfer when that is 0.
C5_ExactRefund ==
    [][(last'.op = "buy_ticket" /\ last'.result = OK) =>
          LET paid == Min(last'.arg, tickets_available) * ticket_cost
          IN  /\ last'.amount >= paid
              /\ last'.sent =
                    IF last'.amount - paid = 0 THEN <<>>
                    ELSE <<transfer(last'.sender, last'.amount - paid)>>
              /\ balance' = balance + paid]_vars

\* a clamped purchase that is refunded: 3 requested, at most 2 granted
C5_Witness ==
    /\ last.op = "buy_ticket"
    /\ last.result = OK
    /\ last.arg = 3
    /\ max_tickets = 2
    /\ ticket_cost > 0
    /\ last.sent # <<>>
    /\ last.sent[1].to = last.sender

\* C6: buy_ticket fails with NoTicketsAvailable when tickets_available = 0,
\* else with InsufficientPayment when the amount is below
\* min(requested, tickets_available) * ticket_cost, else succeeds; a
\* rejected purchase grants no ticket.
C6_BuyTicketOutcome ==
    [][last'.op = "buy_ticket" =>
          /\ last'.result =
                IF tickets_available = 0 THEN NoTicketsAvailable
                ELSE IF last'.amount <
                          Min(last'.arg, tickets_available) * ticket_cost
                     THEN InsufficientPayment
                ELSE OK
          /\ last'.result # OK =>
                /\ players' = players
                /\ tickets_available' = tickets_available]_vars

\* a purchase accepted although the amount is below requested * ticket_cost
C6_Witness ==
    /\ last.op = "buy_ticket"
    /\ last.result = OK
    /\ last.amount < last.arg * ticket_cost

\* C7: change_ticket_cost and change_max_tickets called by another address
\* than admin fail with NotAuthorized and change nothing, fresh round or
\* not.
C7_NonAdminNotAuthorized ==
    [][(last'.op \in AdminOps /\ last'.sender # admin) =>
          /\ last'.result = NotAuthorized
          /\ UNCHANGED <<players, ticket_cost, tickets_available,
                         max_tickets, admin, balance>>]_vars

\* a non-admin call of change_max_tickets in a started round
C7_Witness ==
    /\ last.op = "change_max_tickets"
    /\ last.sender # admin
    /\ last.result = NotAuthorized
    /\ tickets_available # max_tickets

\* C8: called by admin, change_ticket_cost and change_max_tickets fail with
\* RoundAlreadyStarted when tickets_available # max_tickets and succeed
\* when tickets_available = max_tickets.
C8_AdminChangeOnlyWhenFresh ==
    [][(last'.op \in AdminOps /\ last'.sender = admin) =>
          last'.result = IF tickets_available = max_tickets THEN OK
                         ELSE RoundAlreadyStarted]_vars

\* admin refused in a started round
C8_Witness ==
    /\ last.op = "change_ticket_cost"
    /\ last.sender = admin
    /\ last.result = RoundAlreadyStarted
    /\ tickets_available # max_tickets

\* C9: end_game called while tickets_available > 0 fails with
\* RoundNotFinished whoever calls it, and in every state the result of
\* end_game is the same for every caller.
C9_EndGameAnyCaller ==
    /\ [][(last'.op = "end_game" /\ tickets_available > 0) =>
             /\ last'.result = RoundNotFinished
             /\ UNCHANGED <<players, ticket_cost, tickets_available,
                            max_tickets, admin, balance>>]_vars
    /\ [](\A a, b \in Addresses, now \in Timestamps :
             end_game_result(a, now, tickets_available, max_tickets, players)
             = end_game_result(b, now, tickets_available, max_tickets,
                               players))

\* a non-admin end_game refused in an unfinished round
C9_Witness ==
    /\ last.op = "end_game"
    /\ last.sender # admin
    /\ last.result = RoundNotFinished
    /\ tickets_available > 0

\* C10: a successful end_game leaves players empty and tickets_available =
\* max_tickets, keeps ticket_cost, max_tickets and admin, and the next
\* successful buy_ticket fills the keys 0 .. granted-1.
C10_EndGameResets ==
    /\ [][(last'.op = "end_game" /\ last'.result = OK) =>
             /\ DOMAIN players' = {}
             /\ tickets_available' = max_tickets'
             /\ ticket_cost' = ticket_cost
             /\ max_tickets' = max_tickets
             /\ admin' = admin]_vars
    /\ [][(/\ last.op = "end_game"
           /\ last.result = OK
           /\ last'.op = "buy_ticket"
           /\ last'.result = OK) =>
             DOMAIN players' =
                 0 .. (Min(last'.arg, max_tickets) - 1)]_vars

\* a sold-out round of 5 tickets has just been finalized by a non-admin
\* caller and paid to another address
C10_Witness ==
    /\ last.op = "end_game"
    /\ last.result = OK
    /\ last.sender # admin
    /\ last.sent[1].to # last.sender
    /\ max_tickets = 5
    /\ tickets_available = 5
    /\ len(players) = 0

\* the number of tickets of the current round held by address p
tickets_of(p) == Cardinality({k \in DOMAIN players : players[k] = p})
\* the timestamp residues for which end_game succeeds and pays address p
residues_of(p) ==
    {r \in 0 .. (max_tickets - 1) :
        /\ end_game_result(p, r, tickets_available, max_tickets, players) = OK
        /\ players[winner_id(r, max_tickets)] = p}

\* C11: a successful end_game at time now makes exactly one transfer, of
\* the whole balance including the attached amount, to the address at
\* players[now mod max_tickets], a ticket holder of the finished round, and
\* leaves the balance at 0.
C11_WinnerTakesAll ==
    [][(last'.op = "end_game" /\ last'.result = OK) =>
          /\ max_tickets > 0
          /\ (last'.now % max_tickets) \in DOMAIN players
          /\ last'.sent =
                <<transfer(players[last'.now % max_tickets],
                           balance + last'.amount)>>
          /\ tickets_of(last'.sent[1].to) > 0
          /\ balance' = 0]_vars

\* an end_game with an amount attached, at a timestamp beyond max_tickets,
\* that pays a positive pot to another address than the caller
C11_Witness ==
    /\ last.op = "end_game"
    /\ last.result = OK
    /\ last.amount > 0
    /\ last.now >= max_tickets
    /\ last.sent[1].amount > last.amount
    /\ last.sent[1].to # last.sender
    /\ balance = 0

\* C12: in a sold-out round every address is selected by end_game for as
\* many timestamp residues in 0 .. max_tickets-1 as it holds tickets.
C12_ResiduesMatchTickets ==
    tickets_available = 0 =>
        \A p \in Addresses : Cardinality(residues_of(p)) = tickets_of(p)

\* a sold-out round in which one address holds 1 ticket and the other 2
C12_Witness ==
    /\ tickets_available = 0
    /\ max_tickets = 3
    /\ tickets_of(alice) = 1
    /\ tickets_of(AdminAddress) = 2
    /\ Cardinality(residues_of(alice)) = 1
    /\ Cardinality(residues_of(AdminAddress)) = 2

\* C13: a successful buy_ticket granting g = min(requested,
\* tickets_available) tickets adds the keys len(players) ..
\* len(players)+g-1, all mapped to the caller, keeps every other entry and
\* lowers tickets_available by g; the keys of players are always
\* 0 .. len(players)-1.
C13_DenseLedger ==
    /\ [][(last'.op = "buy_ticket" /\ last'.result = OK) =>
             LET g == Min(last'.arg, tickets_available)
             IN  /\ DOMAIN players' =
                        DOMAIN players \cup
                            (len(players) .. (len(players) + g - 1))
                 /\ len(players') = len(players) + g
                 /\ \A k \in DOMAIN players' :
                        IF k \in DOMAIN players THEN players'[k] = players[k]
                        ELSE players'[k] = last'.sender
                 /\ tickets_available' = tickets_available - g]_vars
    /\ [](DOMAIN players = 0 .. (len(players) - 1))

\* a second purchase of a round, of 2 tickets, appended after the tickets
\* of another buyer
C13_Witness ==
    /\ last.op = "buy_ticket"
    /\ last.result = OK
    /\ len(players) >= 3
    /\ players[0] # last.sender
    /\ players[len(players) - 1] = last.sender
    /\ players[len(players) - 2] = last.sender

\* what a buy_ticket that buys nothing and keeps nothing does in a step
NoOpPurchase ==
    /\ last'.result = OK
    /\ players' = players
    /\ tickets_available' = tickets_available
    /\ balance' = balance
    /\ last'.sent = IF last'.amount = 0 THEN <<>>
                    ELSE <<transfer(last'.sender, last'.amount)>>

\* C14 as stated: buy_ticket(0) always succeeds as a no-op purchase that
\* sends the whole attached amount back (stated for the rounds of a
\* capacity of at least 1, so that only a sold-out round refutes it).
C14_ZeroRequestAlwaysSucceeds ==
    [][(last'.op = "buy_ticket" /\ last'.arg = 0 /\ max_tickets >= 1) =>
          NoOpPurchase]_vars

\* C14 amended: buy_ticket(0) called while tickets_available > 0 succeeds,
\* adds no entry, leaves tickets_available and the balance unchanged and
\* sends the whole attached amount back to the caller; called while
\* tickets_available = 0 it fails with NoTicketsAvailable.
C14_ZeroRequestNoOp ==
    [][(last'.op = "buy_ticket" /\ last'.arg = 0) =>
          IF tickets_available > 0 THEN NoOpPurchase
          ELSE /\ last'.result = NoTicketsAvailable
               /\ UNCHANGED <<players, tickets_available, balance>>]_vars

\* a request for no ticket with 2 tez attached, sent back in full, in a
\* started round
C14_Witness ==
    /\ last.op = "buy_ticket"
    /\ last.arg = 0
    /\ last.result = OK
    /\ last.amount = tez(2)
    /\ last.sent = <<transfer(last.sender, tez(2))>>
    /\ len(players) > 0

\* C15: a successful change_ticket_cost sets ticket_cost to its argument
\* and changes no other field; a successful change_max_tickets sets
\* max_tickets and tickets_available to its argument and changes no other
\* field; in both cases players is and stays empty and no transfer is made
\* (the attached amount stays with the contract).
C15_AdminChangeFrame ==
    /\ [][(last'.op = "change_ticket_cost" /\ last'.result = OK) =>
             /\ ticket_cost' = last'.arg
             /\ UNCHANGED <<players, tickets_available, max_tickets, admin>>
             /\ DOMAIN players' = {}
             /\ last'.sent = <<>>
             /\ balance' = balance + last'.amount]_vars
    /\ [][(last'.op = "change_max_tickets" /\ last'.result = OK) =>
             /\ max_tickets' = last'.arg
             /\ tickets_available' = last'.arg
             /\ UNCHANGED <<players, ticket_cost, admin>>
             /\ DOMAIN players' = {}
             /\ last'.sent = <<>>
             /\ balance' = balance + last'.amount]_vars

\* the capacity has just been changed to 2 in a contract whose ticket cost
\* had been changed to 2 tez before
C15_Witness ==
    /\ last.op = "change_max_tickets"
    /\ last.result = OK
    /\ last.arg = 2
    /\ max_tickets = 2
    /\ tickets_available = 2
    /\ ticket_cost = tez(2)

\* C16: max_tickets >= 1 in every reachable state.
C16_MaxTicketsAtLeastOne == max_tickets >= 1

\* C17: ticket_cost > 0 in every reachable state.
C17_TicketCostPositive == ticket_cost > 0

\* what the balance holds beyond the price of the tickets sold
surplus == balance - len(players) * ticket_cost

\* C18: the balance is always at least len(players) * ticket_cost; the
\* surplus starts at 0, grows only by the amounts attached to successful
\* change_ticket_cost and change_max_tickets calls and is paid out by
\* end_game (so it is 0 when nothing is attached to those calls); a
\* successful end_game pays at least max_tickets * ticket_cost and a
\* successful buy_ticket raises the balance by granted * ticket_cost.
C18_BalanceCoversTickets ==
    /\ [](surplus >= 0)
    /\ [][surplus' =
             IF last'.result = OK /\ last'.op \in AdminOps
             THEN surplus + last'.amount
             ELSE IF last'.result = OK /\ last'.op = "end_game" THEN 0
             ELSE surplus]_vars
    /\ [][(last'.op = "end_game" /\ last'.result = OK) =>
             /\ last'.sent[1].amount >= max_tickets * ticket_cost
             /\ last'.sent[1].amount =
                    max_tickets * ticket_cost + surplus + last'.amount]_vars
    /\ [][(last'.op = "buy_ticket" /\ last'.result = OK) =>
             balance' = balance +
                 Min(last'.arg, tickets_available) * ticket_cost]_vars

\* an end_game with nothing attached that pays more than the price of the
\* tickets, the surplus having been attached to an earlier admin call
C18_Witness ==
    /\ last.op = "end_game"
    /\ last.result = OK
    /\ last.amount = 0
    /\ ticket_cost > 0
    /\ last.sent[1].amount > max_tickets * ticket_cost

\* C19: no step taken from a state where players is non-empty changes
\* ticket_cost or max_tickets, and no step at all changes admin.
C19_ConfigFrozenDuringRound ==
    [][/\ len(players) > 0 =>
             (ticket_cost' = ticket_cost /\ max_tickets' = max_tickets)
       /\ admin' = admin]_vars

\* admin has just been refused a different capacity in a round with
\* tickets sold and tickets left
C19_Witness ==
    /\ last.op = "change_max_tickets"
    /\ last.sender = admin
    /\ last.arg # max_tickets
    /\ last.result = RoundAlreadyStarted
    /\ len(players) > 0
    /\ tickets_available > 0

(* ------------------------------ liveness ----------------------------- *)
\* a buy_ticket call whose payment is sufficient, so that it succeeds
buy_ticket_paid == buy_ticket /\ last'.result = OK
\* such a call that asks for at least one ticket
buy_ticket_granted == buy_ticket_paid /\ last'.arg > 0

\* the calls of the liveness specification: a purchase asks for at most 2
\* tickets and comes with nothing or with the highest price of one ticket;
\* the other calls come with nothing, admin sets a cost of 1 tez or the
\* highest cost and a capacity of at most 2, and end_game runs at timestamp
\* 0 or 1
LiveCall(call) ==
    CASE call.op = "buy_ticket" ->
            call.arg <= 2 /\ call.amount \in {tez(0), tez(MaxNewCost)}
      [] call.op = "change_ticket_cost" ->
            call.amount = 0 /\ call.arg \in {tez(1), tez(MaxNewCost)}
      [] call.op = "change_max_tickets" ->
            call.amount = 0 /\ call.arg <= 2
      [] call.op = "end_game" ->
            call.amount = 0 /\ call.now <= 1

LiveNext ==
    \/ buy_ticket /\ LiveCall(last')
    \/ change_ticket_cost /\ LiveCall(last')
    \/ change_max_tickets /\ LiveCall(last')
    \/ end_game /\ LiveCall(last')

\* callers keep making buy_ticket calls with sufficient payment and
\* end_game calls
LiveSpec ==
    Init /\ [][LiveNext]_vars
         /\ WF_vars(buy_ticket_paid /\ LiveCall(last'))
         /\ WF_vars(end_game /\ LiveCall(last'))

RoundStarted == len(players) > 0
SoldOut == tickets_available = 0 /\ len(players) > 0
Finalized == last.op = "end_game" /\ last.result = OK /\ len(players) = 0

\* C20 as stated: when buy_ticket calls with sufficient payment and
\* end_game calls keep being made, every started round is sold out and then
\* finalized by a successful end_game.
C20_RoundCompletes ==
    /\ RoundStarted ~> SoldOut
    /\ SoldOut ~> Finalized

\* C20 amended: when buy_ticket calls with sufficient payment that ask for
\* at least one ticket and end_game calls keep being made, every started
\* round is sold out and then finalized by a successful end_game.
C20_RoundCompletesWithPurchases ==
    WF_vars(buy_ticket_granted /\ LiveCall(last')) => C20_RoundCompletes

\* a round started by alice alone has been finalized by an end_game of
\* alice, without any call of admin in between
C20_Witness ==
    /\ Finalized
    /\ last.sender = alice
    /\ last.sent[1].to = alice
    /\ last.sent[1].amount = max_tickets * ticket_cost
    /\ max_tickets = 5
====
